---- MODULE Spec2Model ----
(***************************************************************************)
(* Model of the admin courses report page                                  *)
(* (src/src/pages/admin/CoursesReportPage.tsx).                            *)
(*                                                                         *)
(* The page holds three store snapshots (courses, enrolments,              *)
(* transactions), two filter selections, four useMemo caches, the rendered *)
(* summary footer and the file handed to the browser by handleExport.      *)
(* Every action is one event handler followed by the re-render it causes.  *)
(*                                                                         *)
(* Text that reaches the export is a sequence of one-character strings, so *)
(* that quoting and joining are operations on characters.  Identifiers     *)
(* that are only compared for equality are TLA+ strings.  An optional      *)
(* value is a sequence of length 0 (undefined) or 1.  Amounts and fees are *)
(* integers.                                                               *)
(***************************************************************************)
EXTENDS Integers, Sequences, FiniteSets, TLC

VARIABLES
    courses,          \* useDataStore(getCourses), line 30
    enrolments,       \* useDataStore(getEnrolments), line 31
    transactions,     \* useDataStore(getTransactions), line 32
    statusFilter,     \* useState('all'), line 34
    providerFilter,   \* useState('all'), line 35
    providers,        \* value cached by the providers memo, lines 38-41
    courseStats,      \* value cached by the courseStats memo, lines 44-60
    filteredCourses,  \* value cached by the filteredCourses memo, lines 63-71
    overallStats,     \* value cached by the overallStats memo, lines 74-89
    summary,          \* the numbers of the rendered summary footer, line 318
    download          \* the file the latest handler handed to the browser
                      \* (lines 125-133, 146-154); NoDownload when the latest
                      \* handler was not handleExport

vars == <<courses, enrolments, transactions, statusFilter, providerFilter,
          providers, courseStats, filteredCourses, overallStats, summary,
          download>>

(***************************************************************************)
(* Bound of the model.                                                     *)
(***************************************************************************)
\* The largest number of records (courses, enrolments and transactions
\* together) the store holds.
MaxRecords == 3

(***************************************************************************)
(* Optional values and text.                                               *)
(***************************************************************************)
None == <<>>

Some(v) == <<v>>

EmptyText == <<>>

Quote == "\""

Comma == ","

Tab == "\t"

Newline == "\n"

\* UTF-16 code units of the characters that occur in provider names.
CharCode(ch) ==
    CASE ch = "A" -> 65 [] ch = "B" -> 66 [] ch = "a" -> 97 [] ch = "c" -> 99
      [] ch = "e" -> 101 [] ch = "l" -> 108 [] ch = "m" -> 109 [] ch = "t" -> 116

\* s < t in the order Array.prototype.sort uses without a comparator:
\* lexicographic on UTF-16 code units.
StrLess(s, t) ==
    \E k \in 1..(Len(t)) :
        /\ k <= Len(s) + 1
        /\ \A j \in 1..(k - 1) : s[j] = t[j]
        /\ \/ k = Len(s) + 1
           \/ CharCode(s[k]) < CharCode(t[k])

Digit(d) == <<"0", "1", "2", "3", "4", "5", "6", "7", "8", "9">>[d + 1]

RECURSIVE NatToText(_)
NatToText(n) ==
    IF n < 10 THEN <<Digit(n)>>
    ELSE NatToText(n \div 10) \o <<Digit(n % 10)>>

\* String(n) for an integer n, as a template literal or join renders it.
NumToText(n) == IF n < 0 THEN <<"-">> \o NatToText(0 - n) ELSE NatToText(n)

Abs(n) == IF n < 0 THEN 0 - n ELSE n

\* a || '' for an optional string a: undefined and '' both give ''.
OrEmpty(a) == IF a = None \/ a[1] = EmptyText THEN EmptyText ELSE a[1]

\* JavaScript truthiness of an optional string.
Truthy(a) == a # None /\ a[1] # ""

(***************************************************************************)
(* Records the store can hold.                                             *)
(***************************************************************************)
AllProviders == <<"a", "l", "l">>

Acme == <<"A", "c", "m", "e">>

Beta == <<"B", "e", "t", "a">>

acme == <<"a", "c", "m", "e">>

CourseCatalogue ==
    { [id |-> "c1", code |-> <<"C", "1">>, name |-> <<"I", "n", "t", "r", "o">>,
       provider |-> Acme, monthlyFee |-> 100, isActive |-> TRUE,
       startDate |-> None, endDate |-> None],
      [id |-> "c2", code |-> <<"C", "2">>, name |-> <<"a", Quote, Comma, "b">>,
       provider |-> Beta, monthlyFee |-> 0, isActive |-> FALSE,
       startDate |-> Some(<<"2", "0", "2", "4", "-", "0", "1", "-", "1", "5">>),
       endDate |-> Some(EmptyText)],
      [id |-> "", code |-> <<"C", "3">>, name |-> <<"x", Tab, "y">>,
       provider |-> acme, monthlyFee |-> 25, isActive |-> TRUE,
       startDate |-> None,
       endDate |-> Some(<<"2", "0", "2", "5", "-", "1", "2", "-", "3", "1">>)] }

EnrolmentCatalogue ==
    { [courseId |-> "c1", isActive |-> TRUE],
      [courseId |-> "c1", isActive |-> FALSE] }

TransactionCatalogue ==
    { [courseId |-> Some("c1"), type |-> "charge", status |-> "completed", amount |-> -75],
      [courseId |-> Some("c1"), type |-> "charge", status |-> "completed", amount |-> 0],
      [courseId |-> Some("c1"), type |-> "top_up", status |-> "completed", amount |-> 20],
      [courseId |-> Some("c1"), type |-> "charge", status |-> "pending", amount |-> 30],
      [courseId |-> None, type |-> "charge", status |-> "completed", amount |-> 40],
      [courseId |-> Some(""), type |-> "charge", status |-> "completed", amount |-> 10] }

StatusOptions == {"all", "active", "inactive"}

(***************************************************************************)
(* Array helpers.                                                          *)
(***************************************************************************)
RECURSIVE FilterSeq(_, _)
\* Array.prototype.filter, with the predicate given as the set of passing values.
FilterSeq(s, keep) ==
    IF s = <<>> THEN <<>>
    ELSE (IF Head(s) \in keep THEN <<Head(s)>> ELSE <<>>) \o FilterSeq(Tail(s), keep)

Range(s) == {s[i] : i \in DOMAIN s}

RemoveAt(s, i) == SubSeq(s, 1, i - 1) \o SubSeq(s, i + 1, Len(s))

RECURSIVE Unique(_)
\* [...new Set(s)]: the distinct elements in order of first occurrence.
Unique(s) ==
    IF s = <<>> THEN <<>>
    ELSE LET init == Unique(SubSeq(s, 1, Len(s) - 1))
             last == s[Len(s)]
         IN  IF last \in Range(init) THEN init ELSE Append(init, last)

RECURSIVE InsertSorted(_, _)
InsertSorted(s, x) ==
    IF s = <<>> THEN <<x>>
    ELSE IF StrLess(x, Head(s)) THEN <<x>> \o s
    ELSE <<Head(s)>> \o InsertSorted(Tail(s), x)

RECURSIVE SortText(_)
\* Array.prototype.sort() without a comparator (stable, code-unit order).
SortText(s) ==
    IF s = <<>> THEN <<>>
    ELSE InsertSorted(SortText(SubSeq(s, 1, Len(s) - 1)), s[Len(s)])

RECURSIVE Join(_, _)
\* Array.prototype.join(sep) on an array of texts.
Join(parts, sep) ==
    IF parts = <<>> THEN EmptyText
    ELSE IF Len(parts) = 1 THEN parts[1]
    ELSE parts[1] \o <<sep>> \o Join(Tail(parts), sep)

(***************************************************************************)
(* The derived values of the page.                                         *)
(***************************************************************************)
RECURSIVE InsertByProvider(_, _)
InsertByProvider(s, c) ==
    IF s = <<>> THEN <<c>>
    ELSE IF StrLess(c.provider, Head(s).provider) THEN <<c>> \o s
    ELSE <<Head(s)>> \o InsertByProvider(Tail(s), c)

RECURSIVE SortByProvider(_)
SortByProvider(s) ==
    IF s = <<>> THEN <<>>
    ELSE InsertByProvider(SortByProvider(SubSeq(s, 1, Len(s) - 1)), s[Len(s)])

\* Variant of providersMemo that sorts the course array itself before
\* collecting the providers.
providersMemoInPlace(cs) ==
    LET sorted == SortByProvider(cs)
    IN  [value |-> Unique([i \in DOMAIN sorted |-> sorted[i].provider]),
         courses |-> sorted]

\* The body of the providers memo.  `value` is what it returns; `courses` is
\* the course array as the body leaves it (sort() works on the spread copy).
providersMemo(cs) ==
    LET uniqueProviders == Unique([i \in DOMAIN cs |-> cs[i].provider])
    IN  [value |-> SortText(uniqueProviders), courses |-> cs]

RECURSIVE SumAmount(_)
\* Variant of SumAbsAmount without Math.abs.
SumAmount(ts) ==
    IF ts = <<>> THEN 0
    ELSE SumAmount(SubSeq(ts, 1, Len(ts) - 1)) + ts[Len(ts)].amount

RECURSIVE SumAbsAmount(_)
\* reduce((sum, t) => sum + Math.abs(t.amount), 0)
SumAbsAmount(ts) ==
    IF ts = <<>> THEN 0
    ELSE SumAbsAmount(SubSeq(ts, 1, Len(ts) - 1)) + Abs(ts[Len(ts)].amount)

\* t.type === 'charge' && t.status === 'completed'
IsCompletedCharge(t) == t.type = "charge" /\ t.status = "completed"

\* Variant of statsRow that counts the active enrolments of every course.
statsRowAllActive(course, es, ts) ==
    LET courseEnrolments == FilterSeq(es, {e \in Range(es) : e.courseId = course.id})
        activeEnrolments == FilterSeq(es, {e \in Range(es) : e.isActive})
        courseTransactions ==
            FilterSeq(ts, {t \in Range(ts) : t.courseId = Some(course.id)})
        totalRevenue ==
            SumAbsAmount(FilterSeq(courseTransactions,
                {t \in Range(courseTransactions) : IsCompletedCharge(t)}))
    IN  [totalEnrolments |-> Len(courseEnrolments),
         activeEnrolments |-> Len(activeEnrolments),
         totalRevenue |-> totalRevenue] @@ course

\* Variant of statsRow that sums the completed charges of every course.
statsRowAllCharges(course, es, ts) ==
    LET courseEnrolments == FilterSeq(es, {e \in Range(es) : e.courseId = course.id})
        activeEnrolments == FilterSeq(courseEnrolments,
                                      {e \in Range(courseEnrolments) : e.isActive})
        totalRevenue ==
            SumAbsAmount(FilterSeq(ts, {t \in Range(ts) : IsCompletedCharge(t)}))
    IN  [totalEnrolments |-> Len(courseEnrolments),
         activeEnrolments |-> Len(activeEnrolments),
         totalRevenue |-> totalRevenue] @@ course

\* The statistics row of one course: { ...course, totalEnrolments, ... }.
statsRow(course, es, ts) ==
    LET courseEnrolments == FilterSeq(es, {e \in Range(es) : e.courseId = course.id})
        activeEnrolments == FilterSeq(courseEnrolments,
                                      {e \in Range(courseEnrolments) : e.isActive})
        courseTransactions ==
            FilterSeq(ts, {t \in Range(ts) : t.courseId = Some(course.id)})
        totalRevenue ==
            SumAbsAmount(FilterSeq(courseTransactions,
                {t \in Range(courseTransactions) : IsCompletedCharge(t)}))
    IN  [totalEnrolments |-> Len(courseEnrolments),
         activeEnrolments |-> Len(activeEnrolments),
         totalRevenue |-> totalRevenue] @@ course

\* The body of the courseStats memo.
courseStatsMemo(cs, es, ts) == [i \in DOMAIN cs |-> statsRow(cs[i], es, ts)]

matchesStatus(row, sf) ==
    \/ sf = "all"
    \/ (sf = "active" /\ row.isActive)
    \/ (sf = "inactive" /\ ~row.isActive)

matchesProvider(row, pf) == pf = AllProviders \/ row.provider = pf

\* Variant of filteredCoursesMemo that keeps a row passing either selection.
filteredCoursesEither(stats, sf, pf) ==
    FilterSeq(stats, {row \in Range(stats) :
                        matchesStatus(row, sf) \/ matchesProvider(row, pf)})

\* The body of the filteredCourses memo.
filteredCoursesMemo(stats, sf, pf) ==
    FilterSeq(stats, {row \in Range(stats) :
                        matchesStatus(row, sf) /\ matchesProvider(row, pf)})

\* Variant of CountsTowardsOverall without the courseId test.
CountsEveryCompletedCharge(t) == IsCompletedCharge(t)

\* t.type === 'charge' && t.status === 'completed' && t.courseId
CountsTowardsOverall(t) == IsCompletedCharge(t) /\ Truthy(t.courseId)

\* The body of the overallStats memo.
overallStatsMemo(cs, es, ts) ==
    [totalCourses |-> Len(cs),
     activeCourses |-> Len(FilterSeq(cs, {c \in Range(cs) : c.isActive})),
     totalEnrolments |-> Len(es),
     activeEnrolments |-> Len(FilterSeq(es, {e \in Range(es) : e.isActive})),
     totalRevenue |->
         SumAbsAmount(FilterSeq(ts, {t \in Range(ts) : CountsTowardsOverall(t)}))]

RECURSIVE Sum(_)
\* reduce((sum, n) => sum + n, 0)
Sum(nums) ==
    IF nums = <<>> THEN 0
    ELSE Sum(SubSeq(nums, 1, Len(nums) - 1)) + nums[Len(nums)]

\* The rows the summary footer reduces over.
summaryRows(stats, filtered) == filtered

\* The three numbers of the summary footer.
summaryFooter(rows) ==
    [rows |-> Len(rows),
     activeEnrolments |-> Sum([i \in DOMAIN rows |-> rows[i].activeEnrolments]),
     totalRevenue |-> Sum([i \in DOMAIN rows |-> rows[i].totalRevenue])]

(***************************************************************************)
(* handleExport.                                                           *)
(***************************************************************************)
headers ==
    << <<"C", "o", "u", "r", "s", "e", " ", "C", "o", "d", "e">>,
       <<"C", "o", "u", "r", "s", "e", " ", "N", "a", "m", "e">>,
       <<"P", "r", "o", "v", "i", "d", "e", "r">>,
       <<"M", "o", "n", "t", "h", "l", "y", " ", "F", "e", "e">>,
       <<"S", "t", "a", "t", "u", "s">>,
       <<"T", "o", "t", "a", "l", " ", "E", "n", "r", "o", "l", "m", "e", "n", "t", "s">>,
       <<"A", "c", "t", "i", "v", "e", " ", "E", "n", "r", "o", "l", "m", "e", "n", "t", "s">>,
       <<"T", "o", "t", "a", "l", " ", "R", "e", "v", "e", "n", "u", "e">>,
       <<"S", "t", "a", "r", "t", " ", "D", "a", "t", "e">>,
       <<"E", "n", "d", " ", "D", "a", "t", "e">> >>

ActiveLabel == <<"A", "c", "t", "i", "v", "e">>

InactiveLabel == <<"I", "n", "a", "c", "t", "i", "v", "e">>

StrCell(s) == [isNum |-> FALSE, str |-> s, num |-> 0]

NumCell(n) == [isNum |-> TRUE, str |-> EmptyText, num |-> n]

\* String(cell), the conversion a template literal and join() apply to a cell.
CellText(cell) == IF cell.isNum THEN NumToText(cell.num) ELSE cell.str

\* The cells of one export row.
exportRow(row) ==
    << StrCell(row.code),
       StrCell(row.name),
       StrCell(row.provider),
       NumCell(row.monthlyFee),
       StrCell(IF row.isActive THEN ActiveLabel ELSE InactiveLabel),
       NumCell(row.totalEnrolments),
       NumCell(row.activeEnrolments),
       NumCell(row.totalRevenue),
       StrCell(OrEmpty(row.startDate)),
       StrCell(OrEmpty(row.endDate)) >>

RECURSIVE DoubleQuotes(_)
\* The text with every double quote doubled.
DoubleQuotes(t) ==
    IF t = <<>> THEN <<>>
    ELSE (IF Head(t) = Quote THEN <<Quote, Quote>> ELSE <<Head(t)>>)
           \o DoubleQuotes(Tail(t))

\* Variant of csvCell that escapes embedded quotes.
csvCellEscaped(cell) == <<Quote>> \o DoubleQuotes(CellText(cell)) \o <<Quote>>

\* `"${cell}"`
csvCell(cell) == <<Quote>> \o CellText(cell) \o <<Quote>>

\* headers.join(',')
csvHeaderLine == Join(headers, Comma)

\* row.map(cell => `"${cell}"`).join(',')
csvLine(cells) == Join([i \in DOMAIN cells |-> csvCell(cells[i])], Comma)

\* row.join('\t')
excelLine(cells) == Join([i \in DOMAIN cells |-> CellText(cells[i])], Tab)

\* Variant of exportSource that serialises the unfiltered rows.
exportSourceUnfiltered(stats, filtered) == stats

\* The rows handleExport serialises.
exportSource(stats, filtered) == filtered

\* The text handleExport builds for a format.
exportContent(format, rows) ==
    LET cellRows == [i \in DOMAIN rows |-> exportRow(rows[i])]
    IN  IF format = "csv"
        THEN Join(<<csvHeaderLine>> \o [i \in DOMAIN cellRows |-> csvLine(cellRows[i])],
                  Newline)
        ELSE Join(<<Join(headers, Tab)>>
                    \o [i \in DOMAIN cellRows |-> excelLine(cellRows[i])],
                  Newline)

ExportFormats == {"csv", "excel"}

NoDownload == [format |-> "none", type |-> "", extension |-> "", content |-> EmptyText]

(***************************************************************************)
(* The state machine.                                                      *)
(***************************************************************************)
\* Dependency lists of the four memos.
providersDeps(cs, es, ts, sf, pf, stats) == <<cs>>

courseStatsDeps(cs, es, ts, sf, pf, stats) == <<cs, es, ts>>

\* Variant of filteredCoursesDeps without providerFilter.
filteredCoursesDepsNoProvider(cs, es, ts, sf, pf, stats) == <<stats, sf>>

filteredCoursesDeps(cs, es, ts, sf, pf, stats) == <<stats, sf, pf>>

overallStatsDeps(cs, es, ts, sf, pf, stats) == <<cs, es, ts>>

\* One render of the component with the store snapshots cs, es, ts and the
\* filter state sf, pf: each memo is recomputed when one of its dependencies
\* differs from the previous render, and the footer is rebuilt.
Render(cs, es, ts, sf, pf) ==
    LET oldDeps(d(_, _, _, _, _, _)) ==
            d(courses, enrolments, transactions, statusFilter, providerFilter,
              courseStats)
        p == IF providersDeps(cs, es, ts, sf, pf, courseStats)
                  # oldDeps(providersDeps)
             THEN providersMemo(cs)
             ELSE [value |-> providers, courses |-> cs]
        cs2 == p.courses
        stats == IF courseStatsDeps(cs2, es, ts, sf, pf, courseStats)
                      # oldDeps(courseStatsDeps)
                 THEN courseStatsMemo(cs2, es, ts)
                 ELSE courseStats
        filtered == IF filteredCoursesDeps(cs2, es, ts, sf, pf, stats)
                         # oldDeps(filteredCoursesDeps)
                    THEN filteredCoursesMemo(stats, sf, pf)
                    ELSE filteredCourses
        overall == IF overallStatsDeps(cs2, es, ts, sf, pf, stats)
                        # oldDeps(overallStatsDeps)
                   THEN overallStatsMemo(cs2, es, ts)
                   ELSE overallStats
    IN  /\ courses' = cs2
        /\ enrolments' = es
        /\ transactions' = ts
        /\ statusFilter' = sf
        /\ providerFilter' = pf
        /\ providers' = p.value
        /\ courseStats' = stats
        /\ filteredCourses' = filtered
        /\ overallStats' = overall
        /\ summary' = summaryFooter(summaryRows(stats, filtered))

StoreSize == Len(courses) + Len(enrolments) + Len(transactions)

\* The first render: empty store, both filters on 'all', every memo computed.
Init ==
    /\ courses = providersMemo(<<>>).courses
    /\ enrolments = <<>>
    /\ transactions = <<>>
    /\ statusFilter = "all"
    /\ providerFilter = AllProviders
    /\ providers = providersMemo(<<>>).value
    /\ courseStats = courseStatsMemo(<<>>, <<>>, <<>>)
    /\ filteredCourses = filteredCoursesMemo(courseStats, "all", AllProviders)
    /\ overallStats = overallStatsMemo(<<>>, <<>>, <<>>)
    /\ summary = summaryFooter(summaryRows(courseStats, filteredCourses))
    /\ download = NoDownload

\* The store publishes a course collection with one more course.
AddCourse ==
    /\ StoreSize < MaxRecords
    /\ \E c \in CourseCatalogue :
          Render(Append(courses, c), enrolments, transactions,
                 statusFilter, providerFilter)
    /\ download' = NoDownload

\* The store publishes a course collection with one course removed.
RemoveCourse ==
    /\ \E i \in DOMAIN courses :
          Render(RemoveAt(courses, i), enrolments, transactions,
                 statusFilter, providerFilter)
    /\ download' = NoDownload

\* The store publishes an enrolment collection with one more enrolment.
AddEnrolment ==
    /\ StoreSize < MaxRecords
    /\ \E e \in EnrolmentCatalogue :
          Render(courses, Append(enrolments, e), transactions,
                 statusFilter, providerFilter)
    /\ download' = NoDownload

\* The store publishes a transaction collection with one more transaction.
AddTransaction ==
    /\ StoreSize < MaxRecords
    /\ \E t \in TransactionCatalogue :
          Render(courses, enrolments, Append(transactions, t),
                 statusFilter, providerFilter)
    /\ download' = NoDownload

\* onValueChange of the status Select.
setStatusFilter ==
    /\ \E v \in StatusOptions :
          Render(courses, enrolments, transactions, v, providerFilter)
    /\ download' = NoDownload

\* onValueChange of the provider Select: 'all' or one of the listed providers.
setProviderFilter ==
    /\ \E v \in {AllProviders} \cup Range(providers) :
          Render(courses, enrolments, transactions, statusFilter, v)
    /\ download' = NoDownload

\* handleExport(format): the file handed to the browser.
handleExport ==
    /\ \E format \in ExportFormats :
          download' =
              [format |-> format,
               type |-> IF format = "csv" THEN "text/csv;charset=utf-8;"
                        ELSE "application/vnd.ms-excel;charset=utf-8;",
               extension |-> IF format = "csv" THEN "csv" ELSE "xls",
               content |-> exportContent(format,
                                         exportSource(courseStats, filteredCourses))]
    /\ UNCHANGED <<courses, enrolments, transactions, statusFilter, providerFilter,
                   providers, courseStats, filteredCourses, overallStats, summary>>

Next ==
    \/ AddCourse
    \/ RemoveCourse
    \/ AddEnrolment
    \/ AddTransaction
    \/ setStatusFilter
    \/ setProviderFilter
    \/ handleExport

Spec == Init /\ [][Next]_vars

(***************************************************************************)
(* Vocabulary of the properties.                                           *)
(***************************************************************************)
RECURSIVE SumOver(_, _)
\* The sum of f[i] over the indices i in I.
SumOver(f, I) ==
    IF I = {} THEN 0
    ELSE LET i == CHOOSE j \in I : TRUE
         IN  f[i] + SumOver(f, I \ {i})

\* The subsequence of s at the indices in I, in increasing order of index.
SubsequenceAt(s, I) ==
    [k \in 1..Cardinality(I) |->
        s[CHOOSE i \in I : Cardinality({j \in I : j <= i}) = k]]

\* The number of occurrences of the character ch in the text t.
Occurrences(ch, t) == Cardinality({k \in DOMAIN t : t[k] = ch})

CourseFields ==
    {"id", "code", "name", "provider", "monthlyFee", "isActive", "startDate", "endDate"}

EnrolmentsOf(i) == {j \in DOMAIN enrolments : enrolments[j].courseId = courses[i].id}

TransactionsOf(i) ==
    {j \in DOMAIN transactions : transactions[j].courseId = Some(courses[i].id)}

AbsAmounts == [j \in DOMAIN transactions |-> Abs(transactions[j].amount)]

UniqueCourseIds ==
    \A i, j \in DOMAIN courses : i # j => courses[i].id # courses[j].id

\* C1: courseStats holds one row per course, in the order of the course
\* collection and carrying the course's fields; totalEnrolments counts the
\* enrolments of the course, activeEnrolments the active ones among them, so
\* totalEnrolments >= activeEnrolments >= 0; a course that no enrolment and
\* no transaction references has all three statistics zero.
C1_OneRowPerCourse ==
    /\ Len(courseStats) = Len(courses)
    /\ \A i \in DOMAIN courses :
          /\ \A f \in CourseFields : courseStats[i][f] = courses[i][f]
          /\ courseStats[i].totalEnrolments = Cardinality(EnrolmentsOf(i))
          /\ courseStats[i].activeEnrolments =
                Cardinality({j \in EnrolmentsOf(i) : enrolments[j].isActive})
          /\ courseStats[i].totalEnrolments >= courseStats[i].activeEnrolments
          /\ courseStats[i].activeEnrolments >= 0
          /\ (EnrolmentsOf(i) = {} /\ TransactionsOf(i) = {}) =>
                /\ courseStats[i].totalEnrolments = 0
                /\ courseStats[i].activeEnrolments = 0
                /\ courseStats[i].totalRevenue = 0

\* Two different courses, one with enrolments (some of them inactive), the
\* other referenced by nothing.
C1_Witness ==
    /\ Len(courses) = 2
    /\ courses[1].id # courses[2].id
    /\ \E i \in DOMAIN courses : EnrolmentsOf(i) = {} /\ TransactionsOf(i) = {}
    /\ \E i \in DOMAIN courses : courseStats[i].totalEnrolments >= 1
    /\ Len(enrolments) >= 1

\* C2: totalRevenue of a course is the sum of |amount| over exactly the
\* transactions of that course that are completed charges; other
\* transactions contribute nothing (dropping them changes no row); a
\* completed charge of -75 contributes +75; totalRevenue is never negative.
C2_RevenueOfCompletedCharges ==
    LET qualifying == {j \in DOMAIN transactions :
                          /\ transactions[j].type = "charge"
                          /\ transactions[j].status = "completed"}
        onlyQualifying == SubsequenceAt(transactions, qualifying)
    IN  \A i \in DOMAIN courses :
          /\ courseStats[i].totalRevenue =
                SumOver(AbsAmounts, TransactionsOf(i) \cap qualifying)
          /\ courseStats[i].totalRevenue >= 0
          /\ courseStats[i].totalRevenue =
                statsRow(courses[i], enrolments, onlyQualifying).totalRevenue
          /\ (\A j \in TransactionsOf(i) \cap qualifying :
                  transactions[j].amount = -75) =>
                courseStats[i].totalRevenue =
                    75 * Cardinality(TransactionsOf(i) \cap qualifying)

\* A course with a completed charge of -75 and a transaction that is not a
\* completed charge.
C2_Witness ==
    \E i \in DOMAIN courses :
        /\ courseStats[i].totalRevenue = 75
        /\ \E j \in TransactionsOf(i) : transactions[j].amount = -75
        /\ \E j \in TransactionsOf(i) :
              transactions[j].amount # 0 /\ ~IsCompletedCharge(transactions[j])

\* The rows of courseStats that pass a status selection and a provider
\* selection, as the filter contract describes them.
PassesStatus(row, sf) ==
    CASE sf = "all" -> TRUE
      [] sf = "active" -> row.isActive = TRUE
      [] sf = "inactive" -> row.isActive = FALSE

PassesProvider(row, pf) == IF pf = AllProviders THEN TRUE ELSE row.provider = pf

Matching(stats, sf, pf) ==
    {i \in DOMAIN stats : PassesStatus(stats[i], sf) /\ PassesProvider(stats[i], pf)}

ProviderChoices == {AllProviders, Acme, Beta, acme, <<"Z">>}

\* C3: filteredCourses is the order-preserving subsequence of courseStats
\* whose rows pass both the status and the provider selection, and filtering
\* by {active, X} equals filtering by {active, all} and then by {all, X}.
C3_FilterIsConjunction ==
    /\ filteredCourses =
          SubsequenceAt(courseStats, Matching(courseStats, statusFilter, providerFilter))
    /\ \A X \in ProviderChoices :
          filteredCoursesMemo(courseStats, "active", X) =
              filteredCoursesMemo(filteredCoursesMemo(courseStats, "active", AllProviders),
                                  "all", X)

\* Three courses under {active, Acme}: one passes, one fails the provider
\* selection only, one is inactive.
C3_Witness ==
    /\ statusFilter = "active"
    /\ providerFilter = Acme
    /\ Len(courseStats) = 3
    /\ Len(filteredCourses) = 1
    /\ \E i \in DOMAIN courseStats :
          courseStats[i].isActive /\ courseStats[i].provider # Acme
    /\ \E i \in DOMAIN courseStats : ~courseStats[i].isActive

\* The overall statistics as computed from the unfiltered collections, the
\* revenue restricted to the completed charges whose courseId is in `tied`.
OverallOf(tied) ==
    [totalCourses |-> Len(courses),
     activeCourses |-> Cardinality({i \in DOMAIN courses : courses[i].isActive}),
     totalEnrolments |-> Len(enrolments),
     activeEnrolments |-> Cardinality({j \in DOMAIN enrolments : enrolments[j].isActive}),
     totalRevenue |->
        SumOver(AbsAmounts,
                {j \in DOMAIN transactions :
                    /\ transactions[j].type = "charge"
                    /\ transactions[j].status = "completed"
                    /\ j \in tied})]

NonNullCourseId == {j \in DOMAIN transactions : transactions[j].courseId # None}

NonEmptyCourseId ==
    {j \in NonNullCourseId : transactions[j].courseId # Some("")}

\* C4 as stated: the overall revenue counts every completed charge whose
\* courseId is not null.
C4_AsStated == overallStats = OverallOf(NonNullCourseId)

C4_Values == overallStats = OverallOf(NonEmptyCourseId)

C4_Frame ==
    (courses' = courses /\ enrolments' = enrolments /\ transactions' = transactions)
        => overallStats' = overallStats

\* C4 (amended): overallStats is computed over the unfiltered collections:
\* the number of courses, of active courses, of enrolments, of active
\* enrolments, and the sum of |amount| over the completed charges whose
\* courseId is neither null nor the empty string; a step that changes only
\* statusFilter or providerFilter leaves every field unchanged.
C4_OverallStats == []C4_Values /\ [][C4_Frame]_vars

\* A filter is set, a completed charge without a course is in the store and
\* the overall revenue is positive.
C4_Witness ==
    /\ statusFilter = "inactive"
    /\ \E j \in DOMAIN transactions :
          IsCompletedCharge(transactions[j]) /\ j \notin NonEmptyCourseId
    /\ overallStats.totalRevenue > 0
    /\ Len(filteredCourses) < Len(courses)

\* The rows the current filter selects from the current collections.
CurrentRows ==
    LET stats == courseStatsMemo(courses, enrolments, transactions)
    IN  SubsequenceAt(stats, Matching(stats, statusFilter, providerFilter))

\* C5: the summary footer is the reduction over the rows the current filter
\* returns for the current collections; when no course matches, the filtered
\* list is empty and the row count and revenue sum are zero.
C5_SummaryOfFilteredRows ==
    /\ summary.rows = Len(CurrentRows)
    /\ summary.activeEnrolments =
          SumOver([i \in DOMAIN CurrentRows |-> CurrentRows[i].activeEnrolments],
                  DOMAIN CurrentRows)
    /\ summary.totalRevenue =
          SumOver([i \in DOMAIN CurrentRows |-> CurrentRows[i].totalRevenue],
                  DOMAIN CurrentRows)
    /\ (Matching(courseStats, statusFilter, providerFilter) = {}) =>
          /\ filteredCourses = <<>>
          /\ summary.rows = 0
          /\ summary.totalRevenue = 0

\* A provider is selected, it keeps some rows and drops others, and the
\* kept rows carry revenue.
C5_Witness ==
    /\ providerFilter # AllProviders
    /\ summary.rows >= 1
    /\ summary.rows < Len(courses)
    /\ summary.totalRevenue > 0

RECURSIVE Concat(_)
\* The concatenation of a sequence of texts.
Concat(parts) ==
    IF parts = <<>> THEN EmptyText
    ELSE Concat(SubSeq(parts, 1, Len(parts) - 1)) \o parts[Len(parts)]

\* The texts of parts with the character sep between neighbours.
Delimited(parts, sep) ==
    Concat([k \in 1..(2 * Len(parts) - 1) |->
              IF k % 2 = 1 THEN parts[(k + 1) \div 2] ELSE <<sep>>])

\* The decimal literal of a number below 1000.
Decimal(n) ==
    LET d == <<"0", "1", "2", "3", "4", "5", "6", "7", "8", "9">>
        h == n \div 100
        t == (n \div 10) % 10
        u == n % 10
    IN  (IF h > 0 THEN <<d[h + 1]>> ELSE <<>>)
          \o (IF h > 0 \/ t > 0 THEN <<d[t + 1]>> ELSE <<>>)
          \o <<d[u + 1]>>

\* The ten cells of a report row, as text, in export order.
TenCells(row) ==
    << row.code, row.name, row.provider, Decimal(row.monthlyFee),
       IF row.isActive THEN ActiveLabel ELSE InactiveLabel,
       Decimal(row.totalEnrolments), Decimal(row.activeEnrolments),
       Decimal(row.totalRevenue),
       IF row.startDate = None THEN EmptyText ELSE row.startDate[1],
       IF row.endDate = None THEN EmptyText ELSE row.endDate[1] >>

Quoted(t) == <<Quote>> \o t \o <<Quote>>

QuotedLine(cells) == Delimited([k \in DOMAIN cells |-> Quoted(cells[k])], Comma)

\* The csv text of the current rows, with the header cells quoted or not.
CsvOf(headerLine) ==
    Delimited(<<headerLine>>
                \o [i \in DOMAIN CurrentRows |-> QuotedLine(TenCells(CurrentRows[i]))],
              Newline)

\* The number of occurrences of ch inside the cells of the current rows.
Embedded(ch) ==
    SumOver([i \in DOMAIN CurrentRows |->
                Occurrences(ch, Concat(TenCells(CurrentRows[i])))],
            DOMAIN CurrentRows)

\* C6 as stated: in a csv export the cells of the header row are wrapped in
\* double quotes like the cells of the data rows.
C6_AsStated ==
    download.format = "csv" => download.content = CsvOf(QuotedLine(headers))

\* C6 (amended): in a csv export the header row is the comma-joined header
\* names without quotes, and each data row is comma-joined with every cell
\* (numeric cells included) wrapped in double quotes; quote and comma
\* characters embedded in a cell are copied as they are.
C6_CsvQuoting ==
    download.format = "csv" =>
        /\ download.content = CsvOf(Delimited(headers, Comma))
        /\ Occurrences(Quote, download.content) =
              20 * Len(CurrentRows) + Embedded(Quote)
        /\ Occurrences(Comma, download.content) =
              9 + 9 * Len(CurrentRows) + Embedded(Comma)

\* A csv export of a row whose name holds a quote and a comma.
C6_Witness ==
    /\ download.format = "csv"
    /\ \E i \in DOMAIN filteredCourses :
          /\ Occurrences(Quote, filteredCourses[i].name) > 0
          /\ Occurrences(Comma, filteredCourses[i].name) > 0

ExampleRow ==
    <<
       "\"", "C", "1", "\"", ",", "\"", "I", "n", "t", "r", "o", "\"",
       ",", "\"", "A", "c", "m", "e", "\"", ",", "\"", "1", "0", "0",
       "\"", ",", "\"", "A", "c", "t", "i", "v", "e", "\"", ",", "\"",
       "0", "\"", ",", "\"", "0", "\"", ",", "\"", "0", "\"", ",", "\"",
       "\"", ",", "\"", "\""
    >>

IsExampleRow(row) ==
    /\ row.code = <<"C", "1">>
    /\ row.name = <<"I", "n", "t", "r", "o">>
    /\ row.provider = Acme
    /\ row.monthlyFee = 100
    /\ row.isActive
    /\ row.totalEnrolments = 0 /\ row.activeEnrolments = 0 /\ row.totalRevenue = 0
    /\ row.startDate = None /\ row.endDate = None

\* C7: an export is the header row followed by one data row per course of
\* the currently filtered list, in order, each with the ten cells code,
\* name, provider, monthlyFee, status label, totalEnrolments,
\* activeEnrolments, totalRevenue, start date or '', end date or '', numbers
\* as raw literals; excel rows are tab-joined without quotes; the csv export
\* of the example course yields the example row.
C7_ExportRows ==
    /\ download.format = "excel" =>
          download.content =
              Delimited(<<Delimited(headers, Tab)>>
                          \o [i \in DOMAIN CurrentRows |->
                                Delimited(TenCells(CurrentRows[i]), Tab)],
                        Newline)
    /\ download.format = "csv" =>
          /\ download.content =
                Delimited(<<Delimited(headers, Comma)>>
                            \o [i \in DOMAIN CurrentRows |->
                                  QuotedLine(TenCells(CurrentRows[i]))],
                          Newline)
          /\ (Len(CurrentRows) = 1 /\ IsExampleRow(CurrentRows[1])) =>
                download.content =
                    Delimited(headers, Comma) \o <<Newline>> \o ExampleRow
    /\ download.format \in ExportFormats =>
          Occurrences(Newline, download.content) = Len(CurrentRows)

\* A csv export under a filter that keeps the example course only.
C7_Witness ==
    /\ download.format = "csv"
    /\ Len(courses) >= 2
    /\ Len(filteredCourses) = 1
    /\ IsExampleRow(filteredCourses[1])

\* C8: statusFilter is one of all, active, inactive and providerFilter is
\* 'all' or the provider of a course of the current course collection.
C8_FilterInDomain ==
    /\ statusFilter \in StatusOptions
    /\ providerFilter \in {AllProviders} \cup {courses[i].provider : i \in DOMAIN courses}

C9_Providers ==
    /\ Range(providers) = {courses[i].provider : i \in DOMAIN courses}
    /\ Len(providers) = Cardinality(Range(providers))
    /\ \A i, j \in DOMAIN providers : i < j => StrLess(providers[i], providers[j])

C9_CoursesAsDelivered ==
    \/ courses' = courses
    \/ \E c \in CourseCatalogue : courses' = Append(courses, c)
    \/ \E i \in DOMAIN courses : courses' = RemoveAt(courses, i)

\* C9: providers is the set of distinct provider values of the course
\* collection, sorted ascending without duplicates, and computing it leaves
\* the course collection as the store delivered it.
C9_ProviderList == []C9_Providers /\ [][C9_CoursesAsDelivered]_vars

\* Three courses, two of one provider, the first not the least provider.
C9_Witness ==
    /\ Len(courses) = 3
    /\ Len(providers) = 2
    /\ courses[1].provider # providers[1]

OrphanEnrolments ==
    {j \in DOMAIN enrolments :
        /\ enrolments[j].isActive
        /\ \A i \in DOMAIN courses : courses[i].id # enrolments[j].courseId}

\* The completed charges with a courseId in `tied` that reference no course.
OrphanCharges(tied) ==
    {j \in tied :
        /\ transactions[j].type = "charge"
        /\ transactions[j].status = "completed"
        /\ \A i \in DOMAIN courses : Some(courses[i].id) # transactions[j].courseId}

SummaryWithinOverall(orphanCharges) ==
    /\ summary.rows = overallStats.totalCourses
    /\ summary.activeEnrolments <= overallStats.activeEnrolments
    /\ summary.totalRevenue <= overallStats.totalRevenue
    /\ (/\ summary.activeEnrolments = overallStats.activeEnrolments
        /\ summary.totalRevenue = overallStats.totalRevenue)
          <=> (OrphanEnrolments = {} /\ orphanCharges = {})

====
